---- MODULE Spec2Model ----
(***************************************************************************)
(* A model of adlfs/core.py: AzureBlobFileSystem (connect, _make_headers,  *)
(* ls, info) and AzureBlobFile (_fetch_range, _initiate_upload, _get_size, *)
(* _upload_chunk, upload_single_shot), driven through the buffered-file    *)
(* protocol of the base class AbstractBufferedFile (write, flush, close).  *)
(*                                                                         *)
(* The remote provider is the environment: every request is answered by a  *)
(* response drawn from a small set.  `log` is the wire trace, one entry    *)
(* per request in the order the code issued them, each with the status the *)
(* provider answered.  `ret` is the outcome of the last call.              *)
(***************************************************************************)
EXTENDS Integers, Sequences, FiniteSets, TLC

VARIABLES
    token,       \* AzureBlobFileSystem.token: id of the access token held
    token_type,  \* AzureBlobFileSystem.token_type: id of the type delivered with it
    exchanges,   \* number of token exchanges so far
    file,        \* the AzureBlobFile objects, by handle
    log,         \* requests issued so far, in order, with the status answered
    ret          \* the last call: its name, its handle, how it ended

vars == <<token, token_type, exchanges, file, log, ret>>

----------------------------------------------------------------------------
(* Bounds of the model *)

MaxLog == 5          \* write path: no call starts once this many requests are logged
MaxReadLog == 3      \* read path: the same
MaxFsLog == 2        \* listing and status: the same
MaxAllLog == 1       \* all operations together: the same
MaxDlLog == 2        \* Datalake Gen1 facade: the same, in calls of its client
MaxTokens == 2       \* token exchanges, construction included
MaxWrite == 2        \* longest payload of one write()
MaxOff == 1          \* largest offset passed to seek() or _fetch_range
blocksize == 2       \* AbstractBufferedFile.blocksize, scaled down

Handles == {1, 2}
Modes == {"rb", "wb"}

----------------------------------------------------------------------------
(* The provider's answers *)

ok == 200                                  \* requests.codes.ok
Statuses == {200, 201, 404}

\* GET on the filesystem root (listing): a JSON body with 'paths', a JSON
\* body with 'error', a JSON body with neither, or no JSON at all.
PathLists ==
    { <<>>,
      <<[name |-> "a", isDirectory |-> "true", contentLength |-> ""]>>,
      <<[name |-> "a", isDirectory |-> "true", contentLength |-> ""],
        [name |-> "b", isDirectory |-> "absent", contentLength |-> "2"]>> }
Bodies ==
    {[kind |-> "paths", paths |-> p, code |-> ""] : p \in PathLists}
    \cup {[kind |-> "error", paths |-> <<>>, code |-> c] :
              c \in {"PathNotFound", "Other"}}
    \cup {[kind |-> k, paths |-> <<>>, code |-> ""] : k \in {"other", "nojson"}}
LsResps == [status : Statuses, body : Bodies]
NoLs == [status |-> 0, body |-> [kind |-> "nojson", paths |-> <<>>, code |-> ""]]

\* HEAD ?action=getStatus: the status, the Content-Length header ("" when the
\* response carries neither header) and the x-ms-resource-type header.
HeadResps == [status : Statuses, clen : {"", "2"}, rtype : {"file"}]

\* GET on a file: the status and the content of the response.
Contents == {<<>>, <<7, 8>>}
GetResps == [status : Statuses, content : Contents]

\* A provider: the answers it may give to a PUT or PATCH (st), to the status
\* HEAD, to the listing GET and to the GET of a file.
Provider == [st |-> Statuses, head |-> HeadResps, ls |-> LsResps, get |-> GetResps]

\* A provider whose status HEAD either succeeds with a length or reports the
\* path missing, the listing then reporting it missing too.
Steady ==
    [ st |-> Statuses,
      head |-> {[status |-> 200, clen |-> "2", rtype |-> "file"],
                [status |-> 404, clen |-> "", rtype |-> "file"]},
      ls |-> {[status |-> 404,
               body |-> [kind |-> "error", paths |-> <<>>, code |-> "PathNotFound"]]},
      get |-> GetResps ]

\* A provider whose listing succeeds with one or two entries, each with
\* isDirectory absent, 'true' or 'false' and contentLength absent or given.
Combos ==
    [ name : {"a"}, isDirectory : {"absent", "true", "false"},
      contentLength : {"", "0", "2"} ]
ComboLists ==
    {<<e>> : e \in Combos} \cup {<<e1, e2>> : e1 \in Combos, e2 \in Combos}
Listing ==
    [ Steady EXCEPT
        !.ls = [ status : {ok},
                 body : {[kind |-> "paths", paths |-> p, code |-> ""] :
                            p \in ComboLists} ] ]

----------------------------------------------------------------------------
(* Results of a call: a value (always held as a sequence; `shape` tells what *)
(* Python object it is) or an exception, with the requests it issued.      *)

Returns(shape, val, reqs) ==
    [exc |-> "none", src |-> "", shape |-> shape, val |-> val, reqs |-> reqs]

Raises(exc, src, reqs) ==
    [exc |-> exc, src |-> src, shape |-> "None", val |-> <<>>, reqs |-> reqs]

\* Python's int() on a decimal string
int(s) == CHOOSE n \in 0 .. 9 : ToString(n) = s

\* requests.Response.raise_for_status(): raises HTTPError on 4xx and 5xx only
raise_for_status(st) == st >= 400 /\ st < 600

\* a faulty variant: only a 5xx status raises
status_raises_5xx(st) == st >= 500 /\ st < 600

\* `if not response.status_code == requests.codes.ok: response.raise_for_status()`
status_raises(st) == ~(st = ok) /\ raise_for_status(st)

----------------------------------------------------------------------------
(* AzureBlobFileSystem._make_headers *)

NoLength == [kind |-> "none", n |-> 0]
StrLength(n) == [kind |-> "str", n |-> n]     \* content_length='0'
IntLength(n) == [kind |-> "int", n |-> n]     \* content_length=l

\* str() of the tuple (start, end - 1) handed over as `range`; <<>> is None
str(range) ==
    "(" \o ToString(range[1]) \o ", " \o ToString(range[2]) \o ")"

Bearer(tok) == "Bearer " \o ToString(tok)

\* a faulty variant: the header keeps the token of construction
Authorization_first == Bearer(1)

Authorization == Bearer(token)

_make_headers(content_length, content_type, media_type, range) ==
    [ Authorization |-> Authorization,
      ContentType   |-> content_type,
      MediaType     |-> media_type,
      Range         |-> IF range # <<>> THEN str(range) ELSE "",
      ContentLength |-> content_length ]

\* One request as put on the wire, with the provider's answer: its status and
\* what else of it the code reads (`reply`, a sequence).
Request(verb, op, h, path, headers, pos, body, st, reply) ==
    [ verb |-> verb, op |-> op, h |-> h, path |-> path,
      auth |-> headers.Authorization, ctype |-> headers.ContentType,
      mtype |-> headers.MediaType, range |-> headers.Range,
      clen |-> headers.ContentLength, pos |-> pos, body |-> body,
      status |-> st, reply |-> reply ]

FormUrl == "application/x-www-form-urlencoded"
OctetStream == "application/octet-stream"

----------------------------------------------------------------------------
(* AzureBlobFileSystem.ls *)

\* a faulty variant: the size is not taken from contentLength
normalize_nosize(e) ==
    [ name |-> e.name,
      isDirectory |-> e.isDirectory,
      type |-> IF e.isDirectory = "true" THEN "directory" ELSE "file",
      size |-> 0 ]

\* the per-entry update of ls(detail=True)
normalize(e) ==
    [ name |-> e.name,
      isDirectory |-> e.isDirectory,
      type |-> IF e.isDirectory # "absent" /\ e.isDirectory = "true"
               THEN "directory" ELSE "file",
      size |-> IF e.contentLength # "" THEN int(e.contentLength) ELSE 0 ]

\* requests.get(url, headers, params) of ls
ls_request(path, h, resp) ==
    Request("GET", "list", h, path, _make_headers(NoLength, FormUrl, "", <<>>),
            -1, <<>>, resp.status, <<resp.body.kind, resp.body.code, resp.body.paths>>)

\* ls from the response on: reqs is the request issued
ls_response(detail, resp, pathlist, reqs) ==
    IF status_raises(resp.status) THEN Raises("HTTPError", "list", reqs)
    ELSE IF resp.body.kind = "nojson" THEN Raises("ValueError", "list", reqs)
    ELSE IF resp.body.kind = "paths" THEN
        IF pathlist # <<>> THEN
            IF detail THEN
                IF Len(pathlist) = 1
                THEN Returns("dict", <<normalize(pathlist[1])>>, reqs)
                ELSE Returns("list",
                             [i \in 1 .. Len(pathlist) |-> normalize(pathlist[i])],
                             reqs)
            ELSE Returns("list", [i \in 1 .. Len(pathlist) |-> pathlist[i].name], reqs)
        ELSE Returns("list", <<>>, reqs)
    \* response['paths'] raised KeyError
    ELSE IF resp.body.kind = "error" THEN
        IF resp.body.code = "PathNotFound" THEN Returns("list", <<>>, reqs)
        ELSE Returns("None", <<>>, reqs)
    ELSE Raises("KeyError", "list", reqs)

ls(path, h, detail, resp) ==
    ls_response(detail, resp, resp.body.paths, <<ls_request(path, h, resp)>>)

----------------------------------------------------------------------------
(* AzureBlobFileSystem.info *)

\* requests.head(url, headers, params) of info
info_request(path, h, head) ==
    Request("HEAD", "getStatus", h, path, _make_headers(NoLength, FormUrl, "", <<>>),
            -1, <<>>, head.status, <<head.clen>>)

\* detail = {'name': path, 'size': int(h['Content-Length']), 'type': ...}
info_detail(path, head, reqs) ==
    IF head.clen = "" THEN Raises("KeyError", "getStatus", reqs)
    ELSE Returns("dict",
                 <<[name |-> path, size |-> int(head.clen), type |-> head.rtype]>>,
                 reqs)

\* a faulty variant: the failure of the listing is the one raised
info_response_listing(path, head, reqs, listing) ==
    IF ~(head.status = ok) THEN
        IF listing.exc = "none" THEN Returns(listing.shape, listing.val, reqs)
        ELSE Raises(listing.exc, "list", reqs)
    ELSE info_detail(path, head, reqs)

\* info from the response on: listing is the result of the fallback ls
info_response(path, head, reqs, listing) ==
    IF ~(head.status = ok) THEN
        IF listing.exc = "none" THEN Returns(listing.shape, listing.val, reqs)
        ELSE IF raise_for_status(head.status)
        THEN Raises("HTTPError", "getStatus", reqs)
        ELSE info_detail(path, head, reqs)
    ELSE info_detail(path, head, reqs)

info_with(path, head, req, listing) ==
    info_response(path, head,
                  IF ~(head.status = ok) THEN <<req>> \o listing.reqs ELSE <<req>>,
                  listing)

info(path, h, head, lsresp) ==
    info_with(path, head, info_request(path, h, head), ls(path, h, FALSE, lsresp))

----------------------------------------------------------------------------
(* AzureBlobFile: the state of one file object.  `data` and `pos` are the  *)
(* io.BytesIO buffer (its value and its stream position), `offset` is <<>> *)
(* for None.  The path of handle h is h.                                   *)

NoFile ==
    [ state |-> "none", mode |-> "rb", size |-> 0, data |-> <<>>, pos |-> 0,
      offset |-> <<>>, forced |-> FALSE, loc |-> 0 ]

\* AbstractBufferedFile.__init__ as called by AzureBlobFile.__init__
NewFile(mode) == [NoFile EXCEPT !.state = "open", !.mode = mode]

\* what requests sends for data=self.buffer: the buffer from its position on,
\* which leaves the position at the end
Rest(f) == SubSeq(f.data, f.pos + 1, Len(f.data))
Sent(f) == [f EXCEPT !.pos = Len(f.data)]

\* io.BytesIO.write at the stream position
BytesIO_write(f, d) ==
    [f EXCEPT !.data = [i \in 1 .. (IF f.pos + Len(d) > Len(f.data)
                                    THEN f.pos + Len(d) ELSE Len(f.data)) |->
                           IF i > f.pos /\ i <= f.pos + Len(d)
                           THEN d[i - f.pos] ELSE f.data[i]],
              !.pos = f.pos + Len(d)]

\* `x or 0` for an optional bound (<<>> is None)
or0(x) == IF x = <<>> THEN 0 ELSE x[1]

\* requests.get in _fetch_range
fetch_verb == "GET"

\* range=(start, end-1), or range=(None)
fetch_range_arg(start, end) ==
    IF start # <<>> \/ end # <<>> THEN <<or0(start), or0(end) - 1>> ELSE <<>>

_fetch_range(h, start, end, resp) ==
    Returns("bytes", resp.content,
            << Request(fetch_verb, "read", h, h,
                       _make_headers(NoLength, FormUrl, "",
                                     fetch_range_arg(start, end)),
                       -1, <<>>, resp.status, resp.content) >>)

\* _initiate_upload from the response on
initiate_response(st, reqs) ==
    IF status_raises(st) THEN Raises("HTTPError", "create", reqs)
    ELSE Returns("None", <<>>, reqs)

_initiate_upload(h, f, st) ==
    initiate_response(st,
        << Request("PUT", "create", h, h,
                   _make_headers(StrLength(0), FormUrl, OctetStream, <<>>),
                   -1, Rest(f), st, <<>>) >>)

\* self.fs.info(path=self.path)['size']
size_of(r) ==
    IF r.exc # "none" THEN r
    ELSE IF r.shape = "dict" THEN Returns("int", <<r.val[1].size>>, r.reqs)
    ELSE Raises("TypeError", "getStatus", r.reqs)   \* ['size'] on a list or None

\* a faulty variant: the size is answered from memory
_get_size_cached(h, head, lsresp) == Returns("int", <<0>>, <<>>)

_get_size(h, head, lsresp) == size_of(info(h, h, head, lsresp))

\* a faulty variant: the append goes after the first block
append_position_block == blocksize

\* params = {'action': 'append', 'position': 0}
append_position == 0

\* a faulty variant: the flush sent with position 0
flush_position_zero(l) == 0

\* params = {'action': 'flush', 'position': l}
flush_position(l) == l

append_request(h, data, st) ==
    Request("PATCH", "append", h, h, _make_headers(IntLength(Len(data)), "", "", <<>>),
            append_position, data, st, <<>>)

flush_request(h, l, st) ==
    Request("PATCH", "flush", h, h, _make_headers(IntLength(0), "", OctetStream, <<>>),
            flush_position(l), <<>>, st, <<>>)

\* a faulty variant: a failed append is sent once more
chunk_steps_retry(size, append, flush) ==
    IF size.exc # "none" THEN size
    ELSE IF status_raises(append.status)
    THEN Raises("HTTPError", "append", size.reqs \o <<append, append>>)
    ELSE IF status_raises(flush.status)
    THEN Raises("HTTPError", "flush", size.reqs \o <<append, append, flush>>)
    ELSE Returns("None", <<>>, size.reqs \o <<append, flush>>)

\* _upload_chunk once the size query has ended with `size`
chunk_steps(size, append, flush) ==
    IF size.exc # "none" THEN size
    ELSE IF status_raises(append.status)
    THEN Raises("HTTPError", "append", size.reqs \o <<append>>)
    ELSE IF status_raises(flush.status)
    THEN Raises("HTTPError", "flush", size.reqs \o <<append, flush>>)
    ELSE Returns("None", <<>>, size.reqs \o <<append, flush>>)

_upload_chunk(h, f, head, lsresp, appSt, fluSt) ==
    chunk_steps(_get_size(h, head, lsresp),
                append_request(h, f.data, appSt),
                flush_request(h, Len(f.data), fluSt))

\* upload_single_shot from the response on
single_response(st, reqs) ==
    IF status_raises(st) THEN Raises("HTTPError", "single", reqs)
    ELSE Returns("None", <<>>, reqs)

upload_single_shot(h, f, st) ==
    single_response(st,
        << Request("PUT", "single", h, h,
                   [_make_headers(NoLength, "", "", <<>>)
                       EXCEPT !.ContentLength = StrLength(0)],
                   -1, Rest(f), st, <<>>) >>)

----------------------------------------------------------------------------
(* The buffered-file protocol AzureBlobFile inherits: write, flush, close. *)
(* Each takes the file object and the provider's answers R to the requests *)
(* it may issue, and yields the file object afterwards with the result.    *)

Outcome(f, res) == [file |-> f, res |-> res]

Forced(f, force) == IF force THEN [f EXCEPT !.forced = TRUE] ELSE f

\* self.buffer.seek(0) at the start of _upload_chunk
Rewound(f) == [f EXCEPT !.pos = 0]

\* flush() after `if self.offset is None: self.offset = 0; _initiate_upload()`:
\* f is the file object at that point, pre the requests issued so far, up the
\* result of _upload_chunk.  After an upload the buffer is replaced.
flush_upload(f, pre, up) ==
    IF up.exc # "none" THEN Outcome(Rewound(f), Raises(up.exc, up.src, pre \o up.reqs))
    ELSE Outcome([f EXCEPT !.offset = <<@[1] + Len(f.data)>>,
                           !.data = <<>>, !.pos = 0],
                 Returns("None", <<>>, pre \o up.reqs))

\* flush(): f is the file object with `forced` set.  When the initiation
\* raises, the base class of some releases marks the file closed before it
\* re-raises and that of others does not: R.marks says which.
flush_steps(f, force, R, init, up) ==
    IF ~force /\ f.pos < blocksize THEN Outcome(f, Returns("None", <<>>, <<>>))
    ELSE IF f.offset = <<>>
    THEN IF init.exc # "none"
         THEN Outcome([Sent(f) EXCEPT !.offset = <<0>>,
                                      !.state = IF R.marks THEN "closed" ELSE @],
                      init)
         ELSE flush_upload([Sent(f) EXCEPT !.offset = <<0>>], init.reqs, up)
    ELSE flush_upload(f, <<>>, up)

flush(f, h, force, R) ==
    flush_steps(Forced(f, force), force, R,
                _initiate_upload(h, f, R.put),
                _upload_chunk(h, f, R.head, R.ls, R.app, R.flu))

\* write() once the data is in the buffer (f1); fl is the result of flush()
write_steps(f, d, f1, fl) ==
    IF f.mode # "wb" \/ f.state = "closed" \/ f.forced
    THEN Outcome(f, Raises("ValueError", "", <<>>))
    ELSE IF f1.pos >= blocksize
    THEN IF fl.res.exc # "none" THEN fl
         ELSE Outcome(fl.file, Returns("int", <<Len(d)>>, fl.res.reqs))
    ELSE Outcome(f1, Returns("int", <<Len(d)>>, <<>>))

Written(f, d) == [BytesIO_write(f, d) EXCEPT !.loc = @ + Len(d)]

write(f, h, d, R) ==
    write_steps(f, d, Written(f, d), flush(Written(f, d), h, FALSE, R))

\* a faulty variant: close() flushes whatever the mode
close_flushes_any(f) == ~f.forced

\* close() flushes a write-mode file that was not force-flushed yet
close_flushes(f) == f.mode # "rb" /\ ~f.forced

close_steps(f, fl) ==
    IF f.state = "closed" THEN Outcome(f, Returns("None", <<>>, <<>>))
    ELSE IF close_flushes(f)
    THEN IF fl.res.exc # "none" THEN fl
         ELSE Outcome([fl.file EXCEPT !.state = "closed"], fl.res)
    ELSE Outcome([f EXCEPT !.state = "closed"], Returns("None", <<>>, <<>>))

close(f, h, R) == close_steps(f, flush(f, h, TRUE, R))

----------------------------------------------------------------------------
(* AzureBlobFileSystem.connect: the token endpoint answers token number    *)
(* `id` with its token_type, unless the answer lacks the key `missing`.    *)

TokenResps(id) ==
    [ id : {id},
      missing : {"", "token_type", "expires_in", "ext_expires_in", "access_token"} ]

\* requests.post(url, headers, data) of connect; the reply is the access
\* token connect takes from the response, if it gets that far
TokenRequest(resp) ==
    [ verb |-> "POST", op |-> "token", h |-> 0, path |-> 0, auth |-> "",
      ctype |-> FormUrl, mtype |-> "", range |-> "", clen |-> NoLength,
      pos |-> -1, body |-> <<>>, status |-> ok,
      reply |-> IF resp.missing = "" THEN <<resp.id>> ELSE <<>> ]

\* the assignments are made in the order token_type, expires_in,
\* ext_expires_in, token; a missing key raises KeyError at its line
connect(resp) ==
    [ token_type |-> IF resp.missing = "token_type" THEN token_type ELSE resp.id,
      token |-> IF resp.missing = "" THEN resp.id ELSE token,
      res |-> IF resp.missing = "" THEN Returns("None", <<>>, <<TokenRequest(resp)>>)
              ELSE Raises("KeyError", "token", <<TokenRequest(resp)>>) ]

----------------------------------------------------------------------------
(* AzureDatalakeFileSystem (Gen1): info, isdir and isfile delegate to the  *)
(* info of the client object self.fs, whose outcome is the environment's:  *)
(* a status dictionary, with or without the key 'length', or an exception. *)

DlTypes == {"FILE", "DIRECTORY"}
DlErrors == {"FileNotFoundError", "PermissionError"}
DlInfos ==
    [exc : {"none"}, type : DlTypes, length : {"", "2"}]
    \cup [exc : DlErrors, type : {""}, length : {""}]

\* str.lower() on the type names the client delivers
lower(t) ==
    CASE t = "FILE" -> "file"
      [] t = "DIRECTORY" -> "directory"
      [] OTHER -> t

\* self.fs.info(path=path, ...) as one call of the client, with its outcome
dl_call(op, path, r) ==
    [ verb |-> "CALL", op |-> op, h |-> 0, path |-> path, auth |-> "",
      ctype |-> "", mtype |-> "", range |-> "", clen |-> NoLength,
      pos |-> -1, body |-> <<>>, status |-> 0, reply |-> <<r.exc, r.type>> ]

\* AzureDatalakeFileSystem.info: info['size'] = info['length']
dl_info(r, reqs) ==
    IF r.exc # "none" THEN Raises(r.exc, "dl_info", reqs)
    ELSE IF r.length = "" THEN Raises("KeyError", "dl_info", reqs)
    ELSE Returns("dict", <<[type |-> r.type, length |-> int(r.length),
                            size |-> int(r.length)]>>, reqs)

\* a faulty variant: isdir catches nothing
isdir_caught_none(exc) == FALSE

\* `except FileNotFoundError:` of isdir
isdir_caught(exc) == exc = "FileNotFoundError"

\* isdir from the result i of self.info(path)
isdir_of(i) ==
    IF i.exc = "none"
    THEN Returns("bool", <<lower(i.val[1].type) = "directory">>, i.reqs)
    ELSE IF isdir_caught(i.exc) THEN Returns("bool", <<FALSE>>, i.reqs)
    ELSE i

isdir(path, r) == isdir_of(dl_info(r, <<dl_call("isdir", path, r)>>))

\* isfile asks self.fs.info itself; its bare `except:` catches everything
isfile(path, r) ==
    IF r.exc = "none"
    THEN Returns("bool", <<lower(r.type) = "file">>, <<dl_call("isfile", path, r)>>)
    ELSE Returns("bool", <<FALSE>>, <<dl_call("isfile", path, r)>>)

----------------------------------------------------------------------------
(* The provider's answers to one flush: only the requests that are issued  *)
(* are answered; 0, NoHead and NoLs stand for "not asked".                 *)

NoHead == [status |-> 0, clen |-> "", rtype |-> "file"]
NoAnswers ==
    [put |-> 0, marks |-> FALSE, head |-> NoHead, ls |-> NoLs, app |-> 0, flu |-> 0]

LsAnswers(head, E) == IF head = NoHead \/ head.status = ok THEN {NoLs} ELSE E.ls

ChunkAnswers(h, put, E) ==
    UNION { UNION { UNION {
        { [put |-> put, marks |-> FALSE, head |-> hd, ls |-> l, app |-> a, flu |-> u] :
            u \in IF status_raises(a) THEN {0} ELSE E.st } :
          a \in IF _get_size(h, hd, l).exc # "none" THEN {0} ELSE E.st } :
        l \in LsAnswers(hd, E) } :
      hd \in E.head }

\* f is the file object as flush() finds it
FlushAnswers(f, h, force, E) ==
    IF ~force /\ f.pos < blocksize THEN {NoAnswers}
    ELSE IF f.offset = <<>>
    THEN UNION { IF status_raises(p)
                 THEN {[NoAnswers EXCEPT !.put = p, !.marks = m] : m \in BOOLEAN}
                 ELSE ChunkAnswers(h, p, E) : p \in E.st }
    ELSE ChunkAnswers(h, 0, E)

----------------------------------------------------------------------------
(* State machine *)

Done(op, h, args, res) ==
    [ op |-> op, h |-> h, args |-> args, exc |-> res.exc, src |-> res.src,
      shape |-> res.shape, val |-> res.val, nreq |-> Len(res.reqs) ]

\* a call on the filesystem or on a file object that leaves the object as it is
Called(op, h, args, r) ==
    /\ log' = log \o r.reqs
    /\ ret' = Done(op, h, args, r)

\* a call on file object h that leaves it as o.file
Applied(op, h, args, o) ==
    /\ file' = [file EXCEPT ![h] = o.file]
    /\ Called(op, h, args, o.res)

\* AzureBlobFileSystem.__init__ ends with its first connect()
FirstToken == [id |-> 1, missing |-> ""]

Init ==
    /\ token = 1
    /\ token_type = 1
    /\ exchanges = 1
    /\ file = [h \in Handles |-> NoFile]
    /\ log = <<TokenRequest(FirstToken)>>
    /\ ret = Done("connect", 0, <<>>, connect(FirstToken).res)

Connected(c) ==
    /\ token' = c.token
    /\ token_type' = c.token_type
    /\ Called("connect", 0, <<>>, c.res)

Connect ==
    /\ exchanges < MaxTokens
    /\ \E resp \in TokenResps(exchanges + 1) : Connected(connect(resp))
    /\ exchanges' = exchanges + 1
    /\ UNCHANGED file

\* AbstractBufferedFile.__init__ in mode 'rb': self.size = fs.info(path)['size']
Opened(h, mode, r) ==
    /\ file' = IF r.exc = "none"
               THEN [file EXCEPT ![h] = [NewFile(mode) EXCEPT !.size = r.val[1]]]
               ELSE file
    /\ log' = log \o r.reqs
    /\ ret' = Done("open", h, <<mode>>,
                   IF r.exc = "none" THEN Returns("None", <<>>, r.reqs) ELSE r)

\* AzureBlobFileSystem._open -> AzureBlobFile.__init__: a read-mode file asks
\* info() for its size; a write-mode file starts with an empty buffer
Open(h, mode, E) ==
    /\ file[h].state = "none"
    /\ IF mode = "rb"
       THEN \E head \in E.head : \E l \in LsAnswers(head, E) :
                Opened(h, mode, _get_size(h, head, l))
       ELSE /\ file' = [file EXCEPT ![h] = NewFile(mode)]
            /\ ret' = Done("open", h, <<mode>>, Returns("None", <<>>, <<>>))
            /\ UNCHANGED log
    /\ UNCHANGED <<token, token_type, exchanges>>

\* the payload of a write: each byte is named by its offset in the stream
Payload(f, n) == [i \in 1 .. n |-> f.loc + i]

Write(h, E) ==
    /\ file[h].state # "none"
    /\ \E n \in 1 .. MaxWrite :
         \E R \in FlushAnswers(Written(file[h], Payload(file[h], n)), h, FALSE, E) :
            Applied("write", h, <<n>>, write(file[h], h, Payload(file[h], n), R))
    /\ UNCHANGED <<token, token_type, exchanges>>

Close(h, E) ==
    /\ file[h].state # "none"
    /\ \E R \in FlushAnswers(file[h], h, TRUE, E) :
         Applied("close", h, <<>>, close(file[h], h, R))
    /\ UNCHANGED <<token, token_type, exchanges>>

\* read() of a read-mode file reaches _fetch_range through the cache
OptOffsets == {<<>>} \cup {<<n>> : n \in 0 .. MaxOff}

FetchRange(h, E) ==
    /\ file[h].state = "open"
    /\ file[h].mode = "rb"
    /\ \E start \in OptOffsets, end \in OptOffsets, resp \in E.get :
         Called("read", h, <<start, end>>, _fetch_range(h, start, end, resp))
    /\ UNCHANGED <<token, token_type, exchanges, file>>

Seek(h) ==
    /\ file[h].state = "open"
    /\ file[h].mode = "rb"
    /\ \E loc \in 0 .. MaxOff :
         /\ file' = [file EXCEPT ![h].loc = loc]
         /\ ret' = Done("seek", h, <<loc>>, Returns("int", <<loc>>, <<>>))
    /\ UNCHANGED <<token, token_type, exchanges, log>>

GetSize(h, E) ==
    /\ file[h].state = "open"
    /\ \E head \in E.head : \E l \in LsAnswers(head, E) :
         Called("size", h, <<>>, _get_size(h, head, l))
    /\ UNCHANGED <<token, token_type, exchanges, file>>

UploadSingleShot(h, E) ==
    /\ file[h].state = "open"
    /\ file[h].mode = "wb"
    /\ \E st \in E.st :
         Called("single", h, <<>>, upload_single_shot(h, file[h], st))
    /\ file' = [file EXCEPT ![h] = Sent(file[h])]
    /\ UNCHANGED <<token, token_type, exchanges>>

Ls(path, E) ==
    /\ \E detail \in BOOLEAN, resp \in E.ls :
         Called("ls", 0, <<path, detail>>, ls(path, 0, detail, resp))
    /\ UNCHANGED <<token, token_type, exchanges, file>>

Info(path, E) ==
    /\ \E head \in E.head : \E l \in LsAnswers(head, E) :
         Called("info", 0, <<path>>, info(path, 0, head, l))
    /\ UNCHANGED <<token, token_type, exchanges, file>>

DlInfo(path) ==
    /\ \E r \in DlInfos :
         Called("dl_info", 0, <<path>>, dl_info(r, <<dl_call("dl_info", path, r)>>))
    /\ UNCHANGED <<token, token_type, exchanges, file>>

IsDir(path) ==
    /\ \E r \in DlInfos : Called("isdir", 0, <<path>>, isdir(path, r))
    /\ UNCHANGED <<token, token_type, exchanges, file>>

IsFile(path) ==
    /\ \E r \in DlInfos : Called("isfile", 0, <<path>>, isfile(path, r))
    /\ UNCHANGED <<token, token_type, exchanges, file>>

\* the requests sent to the storage account
IsStorage(r) == r.op # "token"
Wire == SelectSeq(log, IsStorage)

\* a call may start while fewer than k requests were sent
Room(k) == Len(Wire) < k

\* The write path of one file object
WriteNext ==
    \/ Room(MaxLog) /\ Open(1, "wb", Steady)
    \/ Room(MaxLog) /\ Write(1, Steady)
    \/ Room(MaxLog) /\ Close(1, Steady)

SpecWrite == Init /\ [][WriteNext]_vars

\* The read path of one file object
ReadNext ==
    \/ Room(MaxReadLog) /\ Open(1, "rb", Steady)
    \/ Room(MaxReadLog) /\ FetchRange(1, Steady)
    \/ Room(MaxReadLog) /\ Seek(1)
    \/ Room(MaxReadLog) /\ GetSize(1, Steady)
    \/ Room(MaxReadLog) /\ Close(1, Steady)
    \/ Room(MaxReadLog) /\ Write(1, Steady)

SpecRead == Init /\ [][ReadNext]_vars

\* Listing and status on the filesystem
FsNext ==
    \/ Room(MaxFsLog) /\ Connect
    \/ Room(MaxFsLog) /\ Ls(1, Provider)
    \/ Room(MaxFsLog) /\ Info(1, Provider)

SpecFs == Init /\ [][FsNext]_vars

\* The Datalake Gen1 facade
DlNext ==
    \/ Room(MaxDlLog) /\ DlInfo(1)
    \/ Room(MaxDlLog) /\ IsDir(1)
    \/ Room(MaxDlLog) /\ IsFile(1)

SpecDl == Init /\ [][DlNext]_vars

\* Listings that succeed, over every kind of entry
ListNext ==
    \/ Room(MaxAllLog) /\ Ls(1, Listing)

SpecList == Init /\ [][ListNext]_vars

\* Size queries next to the write path of one file object
SizeNext ==
    \/ Room(MaxLog) /\ Open(1, "wb", Steady)
    \/ Room(MaxLog) /\ GetSize(1, Steady)
    \/ Room(MaxLog) /\ Write(1, Steady)
    \/ Room(MaxLog) /\ Close(1, Steady)

SpecSize == Init /\ [][SizeNext]_vars

\* Status queries alone
InfoNext ==
    \/ Room(MaxFsLog) /\ Info(1, Provider)

SpecInfo == Init /\ [][InfoNext]_vars

\* Credential refresh, with requests of the filesystem and of file objects
AuthNext ==
    \/ Room(MaxFsLog) /\ Connect
    \/ Room(MaxFsLog) /\ Ls(1, Steady)
    \/ Room(MaxFsLog) /\ \E h \in Handles : Open(h, "wb", Provider)
    \/ Room(MaxFsLog) /\ \E h \in Handles : UploadSingleShot(h, Provider)

SpecAuth == Init /\ [][AuthNext]_vars

\* Every request that is followed by a check of its status
StatusNext ==
    \/ Room(MaxAllLog) /\ Open(1, "wb", Provider)
    \/ Room(MaxAllLog) /\ Write(1, Provider)
    \/ Room(MaxAllLog) /\ Close(1, Provider)
    \/ Room(MaxAllLog) /\ UploadSingleShot(1, Provider)
    \/ Room(MaxAllLog) /\ Ls(1, Provider)

SpecStatus == Init /\ [][StatusNext]_vars

\* Every operation, on one file object
Next ==
    \/ Room(MaxFsLog) /\ Connect
    \/ Room(MaxFsLog) /\ \E mode \in Modes : Open(1, mode, Provider)
    \/ Room(MaxFsLog) /\ Write(1, Provider)
    \/ Room(MaxFsLog) /\ Close(1, Provider)
    \/ Room(MaxFsLog) /\ FetchRange(1, Provider)
    \/ Room(MaxFsLog) /\ Seek(1)
    \/ Room(MaxFsLog) /\ GetSize(1, Provider)
    \/ Room(MaxFsLog) /\ UploadSingleShot(1, Provider)
    \/ Room(MaxFsLog) /\ Ls(1, Provider)
    \/ Room(MaxFsLog) /\ Info(1, Provider)

Spec == Init /\ [][Next]_vars

----------------------------------------------------------------------------
(* Properties *)

\* the requests of the last call, as they stand in the log
LastReqs == SubSeq(log, Len(log) - ret.nreq + 1, Len(log))

IsUpload(r) == r.op \in {"create", "append", "flush"}

\* the create, append and flush requests on the wire, in order
Uploads == SelectSeq(log, IsUpload)

\* the whole stream written to handle 1 so far
Stream == [i \in 1 .. file[1].loc |-> i]

\* C1: when a write-mode file that was given n >= 1 bytes in all, fewer than
\* the block size, is closed and close() returns normally, the wire shows
\* exactly one create PUT, then exactly one append PATCH at position 0 with
\* all n bytes, then exactly one flush PATCH at position n, and nothing else
\* among the create, append and flush requests.
C1_WriteCycle ==
    ( /\ ret.op = "close"
      /\ ret.exc = "none"
      /\ ret.nreq > 0
      /\ file[1].loc \in 1 .. blocksize - 1 )
    => /\ Len(Uploads) = 3
       /\ Uploads[1].op = "create"
       /\ Uploads[1].verb = "PUT"
       /\ Uploads[2].op = "append"
       /\ Uploads[2].verb = "PATCH"
       /\ Uploads[2].pos = 0
       /\ Uploads[2].body = Stream
       /\ Uploads[2].clen = IntLength(file[1].loc)
       /\ Uploads[3].op = "flush"
       /\ Uploads[3].verb = "PATCH"
       /\ Uploads[3].pos = file[1].loc
       /\ Uploads[3].body = <<>>

C1_Witness ==
    /\ ret.op = "close"
    /\ ret.exc = "none"
    /\ ret.nreq > 0
    /\ file[1].loc \in 1 .. blocksize - 1
    /\ file[1].state = "closed"
    /\ Len(Uploads) = 3

\* C2: the create PUT is issued at most once per file object, and every
\* append and flush PATCH of a file object comes after a create PUT of that
\* object which did not raise.
C2_CreateFirst ==
    /\ \A i, j \in 1 .. Len(log) :
         (log[i].op = "create" /\ log[j].op = "create" /\ log[i].h = log[j].h)
         => i = j
    /\ \A i \in 1 .. Len(log) :
         log[i].op \in {"append", "flush"}
         => \E j \in 1 .. i - 1 :
               /\ log[j].op = "create"
               /\ log[j].h = log[i].h
               /\ ~status_raises(log[j].status)

C2_Witness ==
    \E i \in 1 .. Len(log) :
        /\ log[i].op = "append"
        /\ \A j \in 1 .. i - 1 :
             (log[j].op = "create" /\ log[j].h = log[i].h)
             => status_raises(log[j].status)

\* the requests whose status the code checks right after the response: create,
\* append, flush and single-shot PUT, and the listing GET when ls is the call
Checked(r) ==
    \/ r.op \in {"create", "append", "flush", "single"}
    \/ r.op = "list" /\ ret.op = "ls"

C4_FetchFails ==
    (ret.op = "read" /\ ret.nreq = 1 /\ raise_for_status(LastReqs[1].status))
    => ret.exc # "none"

C4_Witness ==
    /\ ret.op = "read"
    /\ ret.nreq = 1
    /\ LastReqs[1].status = 404
    /\ ret.exc = "none"
    /\ ret.shape = "bytes"
    /\ ret.val # <<>>

\* C5: _fetch_range(start, end) with start < end issues one GET whose Range
\* header is 'bytes=<start>-<end-1>' and returns the content of the response.
C5_RangeHeader ==
    ( /\ ret.op = "read"
      /\ ret.args[1] # <<>>
      /\ ret.args[2] # <<>>
      /\ ret.args[1][1] < ret.args[2][1] )
    => /\ ret.nreq = 1
       /\ LastReqs[1].verb = "GET"
       /\ LastReqs[1].range =
              "bytes=" \o ToString(ret.args[1][1]) \o "-"
                       \o ToString(ret.args[2][1] - 1)
       /\ ret.exc = "none"
       /\ ret.val = LastReqs[1].reply

C5_Witness ==
    /\ ret.op = "read"
    /\ ret.args = << <<0>>, <<1>> >>
    /\ ret.nreq = 1
    /\ LastReqs[1].range = "(0, 0)"
    /\ ret.val = LastReqs[1].reply

\* the append at index i of the log went through and so did its flush
Flushed(i) ==
    /\ ~status_raises(log[i].status)
    /\ i < Len(log)
    /\ log[i + 1].op = "flush"
    /\ ~status_raises(log[i + 1].status)

\* C6: the bytes of an append that was flushed are not overlapped by a later
\* append of the same file object.
C6_AppendOnly ==
    \A i, j \in 1 .. Len(log) :
        ( /\ i < j
          /\ log[i].op = "append"
          /\ log[j].op = "append"
          /\ log[i].h = log[j].h
          /\ log[i].body # <<>>
          /\ log[j].body # <<>>
          /\ Flushed(i) )
        => log[j].pos >= log[i].pos + Len(log[i].body)

C6_Witness ==
    \E i, j \in 1 .. Len(log) :
        /\ i < j
        /\ log[i].op = "append"
        /\ log[j].op = "append"
        /\ log[i].h = log[j].h
        /\ log[i].body # <<>>
        /\ Flushed(i)
        /\ Flushed(j)
        /\ log[j].pos = log[i].pos
        /\ log[j].body # log[i].body

\* C7: a read-mode file object issues GET and HEAD requests only, and its
\* close() issues no request.
C7_ReadOnly ==
    /\ \A i \in 1 .. Len(log) :
         (log[i].h \in Handles /\ file[log[i].h].mode = "rb")
         => log[i].verb \in {"GET", "HEAD"}
    /\ (ret.op = "close" /\ file[ret.h].mode = "rb") => ret.nreq = 0

C7_Witness ==
    /\ ret.op = "close"
    /\ ret.h = 1
    /\ ret.exc = "none"
    /\ file[1].mode = "rb"
    /\ file[1].state = "closed"
    /\ \E i \in 1 .. Len(log) : log[i].op = "read" /\ log[i].h = 1
    /\ \E i \in 1 .. Len(log) : log[i].op = "getStatus" /\ log[i].h = 1

\* the token that the last connect() to return before request i took
Delivered(i) ==
    LET got == {j \in 1 .. i - 1 : log[j].op = "token" /\ log[j].reply # <<>>}
    IN  log[CHOOSE j \in got : \A k \in got : k <= j].reply[1]

\* C8: every request to the storage account, of the filesystem or of any file
\* object, carries the token of the last connect() that returned before its
\* headers were built; requests logged before a refresh keep the older token.
C8_TokenRefresh ==
    \A i \in 1 .. Len(log) :
        log[i].op # "token" => log[i].auth = Bearer(Delivered(i))

C8_Witness ==
    \E i, j, k \in 1 .. Len(log) :
        /\ i < j
        /\ j < k
        /\ log[i].h \in Handles
        /\ log[k].h = log[i].h
        /\ log[i].auth = Bearer(1)
        /\ log[j].op = "token"
        /\ log[j].reply = <<2>>
        /\ log[k].auth = Bearer(2)

\* C9: ls on a response whose error code is PathNotFound returns an empty
\* list, whatever the status.
C9_LsNotFound ==
    ( /\ ret.op = "ls"
      /\ ret.nreq = 1
      /\ LastReqs[1].reply = <<"error", "PathNotFound", <<>> >> )
    => /\ ret.exc = "none"
       /\ ret.shape = "list"
       /\ ret.val = <<>>

C9_Witness ==
    /\ ret.op = "ls"
    /\ ret.nreq = 1
    /\ LastReqs[1].reply = <<"error", "PathNotFound", <<>> >>
    /\ LastReqs[1].status = 404
    /\ ret.exc = "HTTPError"

\* C10: info on a path that the status request reports missing (404) and the
\* listing reports as PathNotFound ends in a failure.
C10_InfoNotFound ==
    ( /\ ret.op = "info"
      /\ ret.nreq = 2
      /\ LastReqs[1].status = 404
      /\ LastReqs[2].reply = <<"error", "PathNotFound", <<>> >> )
    => ret.exc # "none"

C10_Witness ==
    /\ ret.op = "info"
    /\ ret.nreq = 2
    /\ LastReqs[1].status = 404
    /\ LastReqs[2].reply = <<"error", "PathNotFound", <<>> >>
    /\ ret.exc = "none"
    /\ ret.shape = "list"
    /\ ret.val = <<>>

\* what the client's info answered to the last call of the Gen1 facade
DlFailed == ret.nreq = 1 /\ LastReqs[1].verb = "CALL" /\ LastReqs[1].reply[1] # "none"

\* C11 (as stated): isdir and isfile return false and do not raise, whatever
\* failure the underlying info produces.
C11_NeverRaise ==
    (ret.op \in {"isdir", "isfile"} /\ DlFailed)
    => (ret.exc = "none" /\ ret.val = <<FALSE>>)

\* C11 (amended): isfile returns false on every failure of the underlying
\* info; isdir returns false when that failure is FileNotFoundError, and
\* raises the failure itself when it is any other.
C11_NotFoundIsFalse ==
    /\ (ret.op = "isfile" /\ DlFailed) => (ret.exc = "none" /\ ret.val = <<FALSE>>)
    /\ (ret.op = "isdir" /\ DlFailed)
       => IF LastReqs[1].reply[1] = "FileNotFoundError"
          THEN ret.exc = "none" /\ ret.val = <<FALSE>>
          ELSE ret.exc = LastReqs[1].reply[1]

C11_Witness ==
    /\ ret.op = "isdir"
    /\ DlFailed
    /\ LastReqs[1].reply[1] = "FileNotFoundError"
    /\ ret.exc = "none"
    /\ ret.val = <<FALSE>>

\* the number a contentLength of the provider stands for
Length(c) == CASE c = "0" -> 0 [] c = "2" -> 2

\* the entries the provider listed in answer to the last call
Listed == LastReqs[1].reply[3]

\* C12: every entry of ls(path, detail=True) has a size that is a natural
\* number, the value of contentLength or 0 when it is absent, and a type that
\* is 'directory' exactly when isDirectory is present and 'true', else 'file'.
C12_Normalized ==
    ( /\ ret.op = "ls"
      /\ ret.args[2]
      /\ ret.exc = "none"
      /\ ret.nreq = 1
      /\ Listed # <<>> )
    => /\ Len(ret.val) = Len(Listed)
       /\ \A i \in 1 .. Len(Listed) :
            /\ ret.val[i].size \in Nat
            /\ ret.val[i].size = IF Listed[i].contentLength = "" THEN 0
                                 ELSE Length(Listed[i].contentLength)
            /\ ret.val[i].type \in {"file", "directory"}
            /\ ret.val[i].type = "directory" <=> Listed[i].isDirectory = "true"

C12_Witness ==
    /\ ret.op = "ls"
    /\ ret.args[2]
    /\ ret.exc = "none"
    /\ ret.nreq = 1
    /\ Len(Listed) = 2
    /\ Listed[1].isDirectory = "false"
    /\ Listed[1].contentLength = "2"
    /\ ret.val[1].type = "file"
    /\ ret.val[1].size = 2
    /\ Listed[2].isDirectory = "true"
    /\ Listed[2].contentLength = ""
    /\ ret.val[2].type = "directory"
    /\ ret.val[2].size = 0

\* C13: upload_single_shot issues one PUT, with the whole buffer as its body
\* and Content-Length '0', and no append or flush PATCH.
C13_SingleShot ==
    ret.op = "single"
    => /\ ret.nreq = 1
       /\ LastReqs[1].verb = "PUT"
       /\ LastReqs[1].op = "single"
       /\ LastReqs[1].clen = StrLength(0)
       /\ LastReqs[1].body = file[ret.h].data

C13_Witness ==
    /\ ret.op = "single"
    /\ ret.nreq = 1
    /\ file[ret.h].data # <<>>
    /\ LastReqs[1].body = <<>>

NotCreate(r) == r.op # "create"

\* the requests of the last call that belong to its chunk upload
ChunkReqs == SelectSeq(LastReqs, NotCreate)

\* the positions in ChunkReqs of the requests of one kind
At(op) == {i \in 1 .. Len(ChunkReqs) : ChunkReqs[i].op = op}

\* C15: the requests of one chunk upload are the size query (the status HEAD,
\* with its fallback listing), then the append PATCH, then the flush PATCH,
\* each at most once and in that order; a failure of the size query or of the
\* append ends the upload there, nothing follows a failed flush, and each of
\* these failures is raised to the caller.
C15_ChunkOrder ==
    (ret.op \in {"write", "close"} /\ Len(ChunkReqs) > 0)
    => /\ ChunkReqs[1].op = "getStatus"
       /\ \A op \in {"getStatus", "list", "append", "flush"} : Cardinality(At(op)) <= 1
       /\ \A i \in 1 .. Len(ChunkReqs) :
            ChunkReqs[i].op \in {"getStatus", "list", "append", "flush"}
       /\ \A i \in At("list") : i = 2
       /\ \A i \in At("append") : i = Len(ChunkReqs) - Cardinality(At("flush"))
       /\ \A i \in At("flush") : i = Len(ChunkReqs) /\ At("append") # {}
       /\ \A i \in At("append") :
            status_raises(ChunkReqs[i].status)
            => (At("flush") = {} /\ ret.exc = "HTTPError" /\ ret.src = "append")
       /\ \A i \in At("flush") :
            status_raises(ChunkReqs[i].status)
            => (ret.exc = "HTTPError" /\ ret.src = "flush")
       /\ At("append") = {} => (ret.exc # "none" /\ ret.src = "getStatus")
       /\ ret.exc = "none" => (At("append") # {} /\ At("flush") # {})

C15_Witness ==
    /\ ret.op \in {"write", "close"}
    /\ ret.exc = "HTTPError"
    /\ ret.src = "append"
    /\ Len(ChunkReqs) = 2
    /\ ChunkReqs[1].op = "getStatus"
    /\ ChunkReqs[2].op = "append"
    /\ ChunkReqs[2].status = 404

\* the provider's answer to a listing request r of the log
Answer(r) ==
    [ status |-> r.status,
      body |-> [kind |-> r.reply[1], paths |-> r.reply[3], code |-> r.reply[2]] ]

\* what ls(path, detail=False) makes of the answer to the listing request r
Fallback(r) == ls(r.path, 0, FALSE, Answer(r))

C17_LsReturnsList ==
    (ret.op = "ls" /\ ret.exc = "none") => ret.shape = "list"

C17_Witness ==
    /\ ret.op = "ls"
    /\ ret.exc = "none"
    /\ ret.args[2]
    /\ ret.shape = "dict"
    /\ Len(Listed) = 1

\* C18: every _get_size, called by itself or at the start of a chunk upload,
\* issues a status HEAD of its own, and when it returns it returns the length
\* that this HEAD was answered with.
C18_SizeNotCached ==
    /\ ret.op = "size"
       => /\ ret.nreq >= 1
          /\ LastReqs[1].verb = "HEAD"
          /\ LastReqs[1].op = "getStatus"
          /\ LastReqs[1].h = ret.h
          /\ ret.exc = "none" => ret.val = <<Length(LastReqs[1].reply[1])>>
    /\ \A i \in 1 .. Len(log) :
         log[i].op = "append"
         => /\ i > 1
            /\ \/ log[i - 1].op = "getStatus" /\ log[i - 1].h = log[i].h
               \/ /\ i > 2
                  /\ log[i - 1].op = "list"
                  /\ log[i - 2].op = "getStatus"
                  /\ log[i - 2].h = log[i].h

HeadsOf(h) == {i \in 1 .. Len(log) : log[i].op = "getStatus" /\ log[i].h = h}

C18_Witness ==
    /\ ret.op = "size"
    /\ ret.h = 1
    /\ ret.exc = "none"
    /\ ret.val = <<2>>
    /\ Cardinality(HeadsOf(1)) >= 3
    /\ log[Len(log)].op = "getStatus"
    /\ \E i \in 1 .. Len(log) : log[i].op = "append" /\ log[i].h = 1

\* C19: the token and the token type held are always those of one and the
\* same token exchange, and a connect() whose response lacks a key raises.
C19_PairKept ==
    /\ token_type = token
    /\ (ret.op = "connect" /\ LastReqs[1].reply = <<>>) => ret.exc # "none"

C19_Witness ==
    /\ ret.op = "connect"
    /\ ret.exc = "KeyError"
    /\ token = 1
    /\ token_type = 2

====
